---------------------------- MODULE Spec2Model ----------------------------
(***************************************************************************)
(* Trajectory-derived analytics of the Argo float dashboard:               *)
(* generateMockDriftData (the drift series of a trajectory).               *)
(*                                                                         *)
(* JavaScript numbers are IEEE-754 doubles.  They are modelled here as     *)
(* decimal floating-point numbers <<m, e>> (value m * 10^e) with a signed  *)
(* mantissa of MantissaDigits significant digits, every arithmetic         *)
(* operation rounding its exact result to nearest (ties to even), as a     *)
(* double does with 53 binary digits.  NaN is a value of its own and       *)
(* propagates through the arithmetic; every comparison with NaN is false.  *)
(* Math.sin, Math.cos and Math.atan2 are the correctly rounded functions,  *)
(* tabulated on the arguments the coordinates of the model produce.        *)
(***************************************************************************)
EXTENDS Integers, Sequences, FiniteSets, TLC

(***************************************************************************)
(* Numbers                                                                 *)
(***************************************************************************)
MantissaDigits == 4

MantHi == 10 ^ MantissaDigits

MantLo == 10 ^ (MantissaDigits - 1)

NaN == <<0, 99>>

Zero == <<0, 0>>

IsNaN(x) == x = NaN

Abs(n) == IF n < 0 THEN -n ELSE n

Sgn(n) == IF n < 0 THEN -1 ELSE IF n > 0 THEN 1 ELSE 0

\* The number nearest to n * 10^e (n any integer): ties go to the even mantissa.
Norm(n, e) ==
    IF n = 0 THEN Zero
    ELSE LET mag == Abs(n)
         IN IF mag < MantLo
            THEN LET j == CHOOSE j \in 1..MantissaDigits :
                              /\ mag * 10^j >= MantLo
                              /\ mag * 10^j < MantHi
                 IN <<Sgn(n) * mag * 10^j, e - j>>
            ELSE LET k == CHOOSE k \in 0..6 :
                              /\ mag \div 10^k >= MantLo
                              /\ mag \div 10^k < MantHi
                     q == mag \div 10^k
                     r == mag % 10^k
                     up == 2 * r > 10^k \/ (2 * r = 10^k /\ q % 2 = 1)
                     m == IF up THEN q + 1 ELSE q
                 IN IF m = MantHi THEN <<Sgn(n) * MantLo, e + k + 1>>
                                  ELSE <<Sgn(n) * m, e + k>>

\* A numeric literal of the source: n * 10^e.
Num(n, e) == Norm(n, e)

Neg(x) == IF IsNaN(x) THEN NaN ELSE <<-x[1], x[2]>>

\* x + y
Add(x, y) ==
    IF IsNaN(x) \/ IsNaN(y) THEN NaN
    ELSE IF x[1] = 0 THEN y
    ELSE IF y[1] = 0 THEN x
    ELSE LET hi == IF x[2] >= y[2] THEN x ELSE y
             lo == IF x[2] >= y[2] THEN y ELSE x
             sh == hi[2] - lo[2]
         IN IF sh > MantissaDigits + 1 THEN hi
            ELSE Norm(hi[1] * 10^sh + lo[1], lo[2])

\* x - y
Sub(x, y) == Add(x, Neg(y))

\* x * y
Mul(x, y) ==
    IF IsNaN(x) \/ IsNaN(y) THEN NaN
    ELSE Norm(x[1] * y[1], x[2] + y[2])

\* x / y for y # 0: the quotient to one digit more than the mantissa holds,
\* with a sticky digit for the remainder, then rounded once.
Div(x, y) ==
    IF IsNaN(x) \/ IsNaN(y) THEN NaN
    ELSE LET n == Abs(x[1]) * 10^(MantissaDigits + 1)
             q == n \div Abs(y[1])
             r == n % Abs(y[1])
             s == Sgn(x[1]) * Sgn(y[1])
         IN Norm(s * (q * 10 + (IF r = 0 THEN 0 ELSE 1)),
                 x[2] - y[2] - (MantissaDigits + 2))

\* x < y; false when either is NaN.
Lt(x, y) ==
    /\ ~IsNaN(x)
    /\ ~IsNaN(y)
    /\ LET sx == Sgn(x[1])
           sy == Sgn(y[1])
           MagLt(u, v) == u[2] < v[2] \/ (u[2] = v[2] /\ Abs(u[1]) < Abs(v[1]))
       IN IF sx # sy THEN sx < sy
          ELSE IF sx = 0 THEN FALSE
          ELSE IF sx > 0 THEN MagLt(x, y)
          ELSE MagLt(y, x)

\* x > y
Gt(x, y) == Lt(y, x)

\* x <= y
Leq(x, y) == ~IsNaN(x) /\ ~IsNaN(y) /\ ~Lt(y, x)

\* x >= y
Geq(x, y) == Leq(y, x)

\* Math.min(x, y): NaN if either is NaN.
MathMin(x, y) == IF IsNaN(x) \/ IsNaN(y) THEN NaN ELSE IF Lt(y, x) THEN y ELSE x

\* Math.max(x, y): NaN if either is NaN.
MathMax(x, y) == IF IsNaN(x) \/ IsNaN(y) THEN NaN ELSE IF Lt(x, y) THEN y ELSE x

RECURSIVE ISqrtSearch(_, _, _)
\* The largest r in lo..hi with r * r <= n.
ISqrtSearch(n, lo, hi) ==
    IF lo = hi THEN lo
    ELSE LET mid == (lo + hi + 1) \div 2
         IN IF mid * mid <= n THEN ISqrtSearch(n, mid, hi)
                              ELSE ISqrtSearch(n, lo, mid - 1)

\* Math.sqrt(x), correctly rounded: NaN for a negative x.  With r the integer
\* square root of n, the root of n is nearer to r + 1 exactly when n > r*r + r.
MathSqrt(x) ==
    IF IsNaN(x) \/ x[1] < 0 THEN NaN
    ELSE IF x[1] = 0 THEN Zero
    ELSE LET odd == x[2] % 2 = 1
             n == IF odd THEN x[1] * 10^(MantissaDigits - 1)
                         ELSE x[1] * 10^MantissaDigits
             e == IF odd THEN ((x[2] - 1) \div 2) - 1 ELSE (x[2] \div 2) - 2
             r == ISqrtSearch(n, 0, MantHi)
         IN Norm(IF n > r * r + r THEN r + 1 ELSE r, e)

\* x % y of JavaScript for y > 0: exact, with the sign of x.
Fmod(x, y) ==
    IF IsNaN(x) \/ IsNaN(y) THEN NaN
    ELSE IF Lt(<<Abs(x[1]), x[2]>>, y) THEN x
    ELSE LET e == IF x[2] < y[2] THEN x[2] ELSE y[2]
             nx == Abs(x[1]) * 10^(x[2] - e)
             ny == y[1] * 10^(y[2] - e)
         IN Norm(Sgn(x[1]) * (nx % ny), e)

SinTable ==
    <<-8730, -6>> :> <<-8730, -6>> @@
    <<-7940, -4>> :> <<-7132, -4>> @@
    <<-6300, -3>> :> <<-1681, -5>> @@
    <<-6283, -3>> :> <<1853, -7>> @@
    <<-6006, -3>> :> <<2736, -4>> @@
    <<-5505, -4>> :> <<-5231, -4>> @@
    <<-3159, -3>> :> <<1741, -5>> @@
    <<-3150, -3>> :> <<8407, -6>> @@
    <<-3142, -3>> :> <<4073, -7>> @@
    <<-3124, -3>> :> <<-1759, -5>> @@
    <<-3003, -3>> :> <<-1381, -4>> @@
    <<-2967, -4>> :> <<-2924, -4>> @@
    <<-2845, -3>> :> <<-2923, -4>> @@
    <<-2793, -4>> :> <<-2757, -4>> @@
    <<-2436, -4>> :> <<-2412, -4>> @@
    <<-1746, -5>> :> <<-1746, -5>> @@
    <<-1580, -3>> :> <<-1000, -3>> @@
    <<-1571, -3>> :> <<-1000, -3>> @@
    <<-1562, -3>> :> <<-1000, -3>> @@
    <<-1484, -4>> :> <<-1479, -4>> @@
    <<-1422, -3>> :> <<-9890, -4>> @@
    <<-1396, -4>> :> <<-1391, -4>> @@
    <<-1345, -3>> :> <<-9746, -4>> @@
    <<-1102, -3>> :> <<-8921, -4>> @@
    <<-1101, -3>> :> <<-8917, -4>> @@
    <<0, 0>> :> <<0, 0>> @@
    <<1101, -3>> :> <<8917, -4>> @@
    <<1102, -3>> :> <<8921, -4>> @@
    <<1345, -3>> :> <<9746, -4>> @@
    <<1396, -4>> :> <<1391, -4>> @@
    <<1422, -3>> :> <<9890, -4>> @@
    <<1484, -4>> :> <<1479, -4>> @@
    <<1562, -3>> :> <<1000, -3>> @@
    <<1571, -3>> :> <<1000, -3>> @@
    <<1580, -3>> :> <<1000, -3>> @@
    <<1588, -3>> :> <<9999, -4>> @@
    <<1746, -5>> :> <<1746, -5>> @@
    <<2436, -4>> :> <<2412, -4>> @@
    <<2793, -4>> :> <<2757, -4>> @@
    <<2845, -3>> :> <<2923, -4>> @@
    <<2967, -4>> :> <<2924, -4>> @@
    <<3003, -3>> :> <<1381, -4>> @@
    <<3124, -3>> :> <<1759, -5>> @@
    <<3142, -3>> :> <<-4073, -7>> @@
    <<3150, -3>> :> <<-8407, -6>> @@
    <<3159, -3>> :> <<-1741, -5>> @@
    <<5505, -4>> :> <<5231, -4>> @@
    <<6006, -3>> :> <<-2736, -4>> @@
    <<6283, -3>> :> <<-1853, -7>> @@
    <<6300, -3>> :> <<1681, -5>> @@
    <<7940, -4>> :> <<7132, -4>> @@
    <<8730, -6>> :> <<8730, -6>>

CosTable ==
    <<-6300, -3>> :> <<9999, -4>> @@
    <<-6283, -3>> :> <<1000, -3>> @@
    <<-6006, -3>> :> <<9618, -4>> @@
    <<-3159, -3>> :> <<-9998, -4>> @@
    <<-3142, -3>> :> <<-1000, -3>> @@
    <<-3124, -3>> :> <<-9998, -4>> @@
    <<-2967, -4>> :> <<9563, -4>> @@
    <<-2845, -3>> :> <<-9563, -4>> @@
    <<-2793, -4>> :> <<9612, -4>> @@
    <<-1746, -5>> :> <<9998, -4>> @@
    <<-1101, -3>> :> <<4527, -4>> @@
    <<0, 0>> :> <<1000, -3>> @@
    <<1101, -3>> :> <<4527, -4>> @@
    <<1588, -3>> :> <<-1720, -5>> @@
    <<1746, -5>> :> <<9998, -4>> @@
    <<2793, -4>> :> <<9612, -4>> @@
    <<2845, -3>> :> <<-9563, -4>> @@
    <<2967, -4>> :> <<9563, -4>> @@
    <<3124, -3>> :> <<-9998, -4>> @@
    <<3142, -3>> :> <<-1000, -3>> @@
    <<3159, -3>> :> <<-9998, -4>> @@
    <<6006, -3>> :> <<9618, -4>> @@
    <<6283, -3>> :> <<1000, -3>> @@
    <<6300, -3>> :> <<9999, -4>>

Atan2Table ==
    <<<<-7904, -6>>, <<8917, -4>>>> :> <<-8864, -6>> @@
    <<<<-7610, -6>>, <<-4680, -4>>>> :> <<-3125, -3>> @@
    <<<<-2924, -4>>, <<0, 0>>>> :> <<-1571, -3>> @@
    <<<<-2923, -4>>, <<-8527, -4>>>> :> <<-2811, -3>> @@
    <<<<-2891, -7>>, <<4680, -4>>>> :> <<-6177, -7>> @@
    <<<<-2891, -7>>, <<9999, -4>>>> :> <<-2891, -7>> @@
    <<<<-2757, -4>>, <<0, 0>>>> :> <<-1571, -3>> @@
    <<<<-1844, -7>>, <<-8917, -4>>>> :> <<-3141, -3>> @@
    <<<<-1844, -7>>, <<0, 0>>>> :> <<-1571, -3>> @@
    <<<<-1759, -5>>, <<-8915, -4>>>> :> <<-3122, -3>> @@
    <<<<-1746, -5>>, <<0, 0>>>> :> <<-1571, -3>> @@
    <<<<-1681, -5>>, <<-9998, -4>>>> :> <<-3125, -3>> @@
    <<<<-1324, -4>>, <<8917, -4>>>> :> <<-1474, -4>> @@
    <<<<0, 0>>, <<-8917, -4>>>> :> <<3142, -3>> @@
    <<<<0, 0>>, <<0, 0>>>> :> <<0, 0>> @@
    <<<<0, 0>>, <<1000, -3>>>> :> <<0, 0>> @@
    <<<<0, 0>>, <<8917, -4>>>> :> <<0, 0>> @@
    <<<<1323, -4>>, <<-8917, -4>>>> :> <<2994, -3>> @@
    <<<<1391, -4>>, <<9903, -4>>>> :> <<1395, -4>> @@
    <<<<1446, -7>>, <<1000, -3>>>> :> <<1446, -7>> @@
    <<<<1479, -4>>, <<9890, -4>>>> :> <<1484, -4>> @@
    <<<<1746, -5>>, <<-8915, -4>>>> :> <<3122, -3>> @@
    <<<<1746, -5>>, <<0, 0>>>> :> <<1571, -3>> @@
    <<<<1844, -7>>, <<0, 0>>>> :> <<1571, -3>> @@
    <<<<1853, -7>>, <<-9999, -4>>>> :> <<3141, -3>> @@
    <<<<2412, -4>>, <<9705, -4>>>> :> <<2436, -4>> @@
    <<<<2736, -4>>, <<-9617, -4>>>> :> <<2864, -3>> @@
    <<<<2757, -4>>, <<0, 0>>>> :> <<1571, -3>> @@
    <<<<2924, -4>>, <<-8527, -4>>>> :> <<2811, -3>> @@
    <<<<2924, -4>>, <<0, 0>>>> :> <<1571, -3>> @@
    <<<<2995, -7>>, <<4680, -4>>>> :> <<6400, -7>> @@
    <<<<3187, -9>>, <<9999, -4>>>> :> <<3187, -9>> @@
    <<<<4073, -7>>, <<-8917, -4>>>> :> <<3141, -3>> @@
    <<<<4527, -4>>, <<8917, -4>>>> :> <<4698, -4>> @@
    <<<<4706, -6>>, <<9999, -4>>>> :> <<4706, -6>> @@
    <<<<5231, -4>>, <<8523, -4>>>> :> <<5505, -4>> @@
    <<<<5324, -4>>, <<8465, -4>>>> :> <<5614, -4>> @@
    <<<<7130, -4>>, <<7011, -4>>>> :> <<7938, -4>> @@
    <<<<7130, -4>>, <<7012, -4>>>> :> <<7937, -4>> @@
    <<<<7132, -4>>, <<7009, -4>>>> :> <<7941, -4>> @@
    <<<<7882, -6>>, <<4679, -4>>>> :> <<1684, -5>> @@
    <<<<7963, -6>>, <<-8917, -4>>>> :> <<3133, -3>> @@
    <<<<8464, -4>>, <<5325, -4>>>> :> <<1009, -3>> @@
    <<<<8522, -4>>, <<5232, -4>>>> :> <<1020, -3>> @@
    <<<<8730, -6>>, <<9999, -4>>>> :> <<8731, -6>> @@
    <<<<8921, -4>>, <<4519, -4>>>> :> <<1102, -3>> @@
    <<<<9706, -4>>, <<2408, -4>>>> :> <<1328, -3>> @@
    <<<<9746, -4>>, <<2241, -4>>>> :> <<1345, -3>>

\* Math.sin(x)
MathSin(x) == IF IsNaN(x) THEN NaN ELSE SinTable[x]

\* Math.cos(x)
MathCos(x) == IF IsNaN(x) THEN NaN ELSE CosTable[x]

\* Math.atan2(y, x)
MathAtan2(y, x) == IF IsNaN(y) \/ IsNaN(x) THEN NaN ELSE Atan2Table[<<y, x>>]

\* Math.PI
MathPI == Num(3141592, -6)

(***************************************************************************)
(* Inputs                                                                  *)
(***************************************************************************)
\* The longest trajectory of the model.
MaxPoints == 3

\* (latitude, longitude) in degrees: three fixes on the equator, two
\* antipodal fixes, and one fix outside the +-90 / +-180 ranges.
Coordinates ==
    { <<Num(0, 0), Num(0, 0)>>,
      <<Num(0, 0), Num(1, 0)>>,
      <<Num(0, 0), Num(17, 0)>>,
      <<Num(6308, -2), Num(0, 0)>>,
      <<Num(-6308, -2), Num(180, 0)>>,
      <<Num(91, 0), Num(361, 0)>> }

\* ISO timestamps, as Date.prototype.toISOString writes them.
Timestamps ==
    { "1970-01-01T00:00:00.000Z",
      "1970-01-01T01:00:00.000Z",
      "1970-01-01T20:00:00.000Z" }

\* new Date(timestamp).getTime(): milliseconds since the epoch.
GetTime(timestamp) ==
    CASE timestamp = "1970-01-01T00:00:00.000Z" -> Num(0, 0)
      [] timestamp = "1970-01-01T01:00:00.000Z" -> Num(3600000, 0)
      [] timestamp = "1970-01-01T20:00:00.000Z" -> Num(72000000, 0)

\* interface TrajectoryPoint
TrajectoryPoint ==
    { [latitude |-> c[1], longitude |-> c[2], timestamp |-> t] :
        c \in Coordinates, t \in Timestamps }

Trajectories == UNION { [1..n -> TrajectoryPoint] : n \in 0..MaxPoints }

(***************************************************************************)
(* JavaScript arrays (indices from 0)                                      *)
(***************************************************************************)
\* array[i]
At(array, i) == array[i + 1]

\* array.slice(start, end)
Slice(array, start, end) ==
    LET last == IF end < Len(array) THEN end ELSE Len(array)
    IN IF start >= last THEN <<>> ELSE SubSeq(array, start + 1, last)

\* Mutant of SliceFrom: the whole array (slice(0)).
SliceFromStart(array, start) == Slice(array, 0, Len(array))

\* array.slice(start)
SliceFrom(array, start) == Slice(array, start, Len(array))

(***************************************************************************)
(* generateMockDriftData                                                   *)
(***************************************************************************)
EarthRadiusKm == 6371

SpeedCap == 10

\* degrees * Math.PI / 180
Radians(degrees) == Div(Mul(degrees, MathPI), Num(180, 0))

\* Mutant of HaversineFormula: the central angle without its factor 2.
HaversineFormulaHalfAngle(latA, lonA, latB, lonB) ==
    LET lat1 == Radians(latA)
        lat2 == Radians(latB)
        deltaLat == Radians(Sub(latB, latA))
        deltaLon == Radians(Sub(lonB, lonA))
        sLat == MathSin(Div(deltaLat, Num(2, 0)))
        sLon == MathSin(Div(deltaLon, Num(2, 0)))
        a == Add(Mul(sLat, sLat),
                 Mul(Mul(Mul(MathCos(lat1), MathCos(lat2)), sLon), sLon))
        c == MathAtan2(MathSqrt(a), MathSqrt(Sub(Num(1, 0), a)))
    IN Mul(Num(EarthRadiusKm, 0), c)

\* Mutant of HaversineFormula: the longitude gap taken as the end point's longitude
\* alone (the start point's longitude is forgotten).
HaversineFormulaFromMeridian(latA, lonA, latB, lonB) ==
    LET lat1 == Radians(latA)
        lat2 == Radians(latB)
        deltaLat == Radians(Sub(latB, latA))
        deltaLon == Radians(lonB)
        sLat == MathSin(Div(deltaLat, Num(2, 0)))
        sLon == MathSin(Div(deltaLon, Num(2, 0)))
        a == Add(Mul(sLat, sLat),
                 Mul(Mul(Mul(MathCos(lat1), MathCos(lat2)), sLon), sLon))
        c == Mul(Num(2, 0),
                 MathAtan2(MathSqrt(a), MathSqrt(Sub(Num(1, 0), a))))
    IN Mul(Num(EarthRadiusKm, 0), c)

\* The Haversine formula as the source writes it (three times): the
\* great-circle distance in km between two (latitude, longitude) pairs.
HaversineFormula(latA, lonA, latB, lonB) ==
    LET lat1 == Radians(latA)
        lat2 == Radians(latB)
        deltaLat == Radians(Sub(latB, latA))
        deltaLon == Radians(Sub(lonB, lonA))
        sLat == MathSin(Div(deltaLat, Num(2, 0)))
        sLon == MathSin(Div(deltaLon, Num(2, 0)))
        a == Add(Mul(sLat, sLat),
                 Mul(Mul(Mul(MathCos(lat1), MathCos(lat2)), sLon), sLon))
        c == Mul(Num(2, 0),
                 MathAtan2(MathSqrt(a), MathSqrt(Sub(Num(1, 0), a))))
    IN Mul(Num(EarthRadiusKm, 0), c)

\* The formula on every pair of coordinates of the model, evaluated once.
HaversineKm ==
    [p \in Coordinates \X Coordinates |->
        HaversineFormula(p[1][1], p[1][2], p[2][1], p[2][2])] @@ <<>>

Haversine(latA, lonA, latB, lonB) == HaversineKm[<<<<latA, lonA>>, <<latB, lonB>>>>]

\* const distance: the pair (prevPoint, point).
distance(prevPoint, point) ==
    Haversine(prevPoint.latitude, prevPoint.longitude,
              point.latitude, point.longitude)

\* const timeDiff: hours from prevPoint to point.
timeDiff(prevPoint, point) ==
    Div(Sub(GetTime(point.timestamp), GetTime(prevPoint.timestamp)),
        Num(1000 * 60 * 60, 0))

\* Mutant of speed: any non-zero time difference divides, by its magnitude.
speedOfAnyGap(prevPoint, point) ==
    LET gap == timeDiff(prevPoint, point)
    IN IF IsNaN(gap) \/ gap = Zero THEN Zero
       ELSE Div(distance(prevPoint, point), <<Abs(gap[1]), gap[2]>>)

\* const speed = timeDiff > 0 ? distance / timeDiff : 0
speed(prevPoint, point) ==
    IF Gt(timeDiff(prevPoint, point), Zero)
    THEN Div(distance(prevPoint, point), timeDiff(prevPoint, point))
    ELSE Zero

\* Math.atan2(y, x) of the bearing, in radians.
BearingRadians(latA, lonA, latB, lonB) ==
    LET lat1 == Radians(latA)
        lat2 == Radians(latB)
        deltaLon == Radians(Sub(lonB, lonA))
        y == Mul(MathSin(deltaLon), MathCos(lat2))
        x == Sub(Mul(MathCos(lat1), MathSin(lat2)),
                 Mul(Mul(MathSin(lat1), MathCos(lat2)), MathCos(deltaLon)))
    IN MathAtan2(y, x)

\* Mutant of BearingFormula: the angle in degrees, not brought into [0, 360).
BearingFormulaSigned(latA, lonA, latB, lonB) ==
    Div(Mul(BearingRadians(latA, lonA, latB, lonB), Num(180, 0)), MathPI)

\* Mutant of BearingFormula: 360 is added but the remainder is not taken.
BearingFormulaUnwrapped(latA, lonA, latB, lonB) ==
    Add(Div(Mul(BearingRadians(latA, lonA, latB, lonB), Num(180, 0)), MathPI),
        Num(360, 0))

\* The bearing formula of the source: ((atan2 * 180) / PI + 360) % 360.
BearingFormula(latA, lonA, latB, lonB) ==
    Fmod(Add(Div(Mul(BearingRadians(latA, lonA, latB, lonB), Num(180, 0)),
                 MathPI),
             Num(360, 0)),
         Num(360, 0))

\* The formula on every pair of coordinates of the model, evaluated once.
BearingDeg ==
    [p \in Coordinates \X Coordinates |->
        BearingFormula(p[1][1], p[1][2], p[2][1], p[2][2])] @@ <<>>

\* const direction: the initial bearing from prevPoint toward point.
direction(prevPoint, point) ==
    BearingDeg[<<<<prevPoint.latitude, prevPoint.longitude>>,
                 <<point.latitude, point.longitude>>>>]

RECURSIVE Reduce(_, _, _, _)
\* array.reduce(callback, initial), the callback being the source's
\* (total, p, i) => i === 0 ? 0 : total + haversine(points[i - 1], p);
\* i counts the elements already folded.
Reduce(points, array, i, total) ==
    IF i = Len(array) THEN total
    ELSE LET p == At(array, i)
             prev == At(points, i - 1)
             next == IF i = 0 THEN Zero
                     ELSE Add(total, Haversine(prev.latitude, prev.longitude,
                                               p.latitude, p.longitude))
         IN Reduce(points, array, i + 1, next)

\* Mutant of cumulativeDistance: the slice ends one point early.
cumulativeDistanceShort(points, index) ==
    Reduce(points, Slice(points, 0, index + 1), 0, Zero)

\* Mutant of cumulativeDistance: the whole trajectory is summed.
cumulativeDistanceTotal(points, index) == Reduce(points, points, 0, Zero)

\* Mutant of cumulativeDistance: the distance of the record's own pair only.
cumulativeDistanceOfPair(points, index) ==
    LET prev == At(points, index)
        p == At(points, index + 1)
    IN Haversine(prev.latitude, prev.longitude, p.latitude, p.longitude)

\* const cumulativeDistance
cumulativeDistance(points, index) ==
    Reduce(points, Slice(points, 0, index + 2), 0, Zero)

\* Mutant of displacement: measured from the second point of the trajectory.
displacementFromSecond(points, point) ==
    LET startPoint == At(points, 1)
    IN Haversine(startPoint.latitude, startPoint.longitude,
                 point.latitude, point.longitude)

\* const displacement: from the first point of the trajectory to point.
displacement(points, point) ==
    LET startPoint == At(points, 0)
    IN Haversine(startPoint.latitude, startPoint.longitude,
                 point.latitude, point.longitude)

\* Mutant of cappedSpeed: the cap of 10 is missing.
uncappedSpeed(prevPoint, point) == MathMax(Zero, speed(prevPoint, point))

\* speed: Math.max(0, Math.min(speed, 10))
cappedSpeed(prevPoint, point) ==
    MathMax(Zero, MathMin(speed(prevPoint, point), Num(SpeedCap, 0)))

\* array[i] is undefined: i is not an index of the array.
IsUndefined(array, i) == i < 0 \/ i >= Len(array)

\* Mutant of prevPointIndex: the element before trajectoryPoints[index].
prevPointIndexBefore(index) == index - 1

\* const prevPoint = trajectoryPoints[index]: the index that is read.
prevPointIndex(index) == index

\* The callback reads a property of undefined (a TypeError): prevPoint or
\* trajectoryPoints[0] is not an element of the array.
TypeError(points, index) ==
    IsUndefined(points, prevPointIndex(index)) \/ IsUndefined(points, 0)

\* Mutant of DriftData: the position is copied from the previous point.
DriftDataAtPrev(points, point, index) ==
    LET prevPoint == At(points, prevPointIndex(index))
    IN [ timestamp |-> point.timestamp,
         speed |-> cappedSpeed(prevPoint, point),
         direction |-> direction(prevPoint, point),
         latitude |-> prevPoint.latitude,
         longitude |-> prevPoint.longitude,
         distance |-> cumulativeDistance(points, index),
         displacement |-> displacement(points, point) ]

\* The record the map callback returns for (point, index).
DriftData(points, point, index) ==
    LET prevPoint == At(points, prevPointIndex(index))
    IN [ timestamp |-> point.timestamp,
         speed |-> cappedSpeed(prevPoint, point),
         direction |-> direction(prevPoint, point),
         latitude |-> point.latitude,
         longitude |-> point.longitude,
         distance |-> cumulativeDistance(points, index),
         displacement |-> displacement(points, point) ]

\* What generateMockDriftData(points) returns: the callback's record for
\* every element of points.slice(1), in order.
generateMockDriftData(points) ==
    LET array == SliceFrom(points, 1)
    IN [k \in 1..Len(array) |-> DriftData(points, At(array, k - 1), k - 1)]

VARIABLES
    trajectoryPoints,   \* the argument of generateMockDriftData
    sliced,             \* trajectoryPoints.slice(1), the array map walks
    index,              \* the index map passes to its callback next
    driftData,          \* the array map is building (the result)
    pc,                 \* "call", "map", "done", "threw" (an exception)
    returned            \* what each finished call was given and returned

\* The effect of ProfileOverlayChart, which is given the same array as
\* trajectory.points.
VARIABLES
    validPoints,        \* the points that passed the filter
    iProfile,           \* the loop variable i of the grouping loop
    profile,            \* the window the loop body sliced last
    profiles,           \* the groups pushed so far
    paths,              \* the profile lines drawn so far
    effect              \* "effect", "skipped" (first return), "loop",
                        \* "draw", "done"

driftVars == <<sliced, index, driftData, pc, returned>>

profileVars == <<validPoints, iProfile, profile, profiles, paths, effect>>

\* What DriftAnalysisChart computed from its data prop.
VARIABLES
    chart               \* <<>> until the component has rendered, then
                        \* <<what it computed>>

chartVars == <<chart>>

vars == <<trajectoryPoints, driftVars, profileVars, chartVars>>

\* generateMockDriftData has not been called.
DriftIdle ==
    /\ sliced = <<>>
    /\ index = 0
    /\ driftData = <<>>
    /\ pc = "call"
    /\ returned = <<>>

\* The effect of ProfileOverlayChart has not run.
ProfileIdle ==
    /\ validPoints = <<>>
    /\ iProfile = 0
    /\ profile = <<>>
    /\ profiles = <<>>
    /\ paths = <<>>
    /\ effect = "effect"

\* DriftAnalysisChart has not rendered.
ChartIdle == chart = <<>>

Init ==
    /\ trajectoryPoints \in Trajectories
    /\ DriftIdle
    /\ ProfileIdle
    /\ ChartIdle

\* generateMockDriftData is entered: trajectoryPoints.slice(1)
Call ==
    /\ pc = "call"
    /\ sliced' = SliceFrom(trajectoryPoints, 1)
    /\ pc' = "map"
    /\ UNCHANGED <<trajectoryPoints, index, driftData, returned, profileVars, chartVars>>

\* map calls its callback on the next element of the slice.
MapCallback ==
    /\ pc = "map"
    /\ index < Len(sliced)
    /\ IF TypeError(trajectoryPoints, index)
       THEN /\ pc' = "threw"
            /\ UNCHANGED <<driftData, index>>
       ELSE /\ driftData' = Append(driftData,
                                   DriftData(trajectoryPoints,
                                             At(sliced, index), index))
            /\ index' = index + 1
            /\ pc' = pc
    /\ UNCHANGED <<trajectoryPoints, sliced, returned, profileVars, chartVars>>

\* map has walked the slice: the function returns driftData.
Return ==
    /\ pc = "map"
    /\ index = Len(sliced)
    /\ pc' = "done"
    /\ returned' = Append(returned, [argument |-> trajectoryPoints,
                                     result |-> driftData])
    /\ UNCHANGED <<trajectoryPoints, sliced, index, driftData, profileVars, chartVars>>

\* x || 0 for a number x: 0 and NaN are falsy.
NumberOrZero(x) == IF IsNaN(x) \/ x = Zero THEN Zero ELSE x

\* data[data.length - 1]?.distance || 0, for an array that is not empty
totalDistance(data) == NumberOrZero(data[Len(data)].distance)

\* data[data.length - 1]?.displacement || 0, for an array that is not empty
totalDisplacement(data) == NumberOrZero(data[Len(data)].displacement)

\* totalDistance > 0 ? (totalDisplacement / totalDistance) * 100 : 0
efficiency(data) ==
    IF Gt(totalDistance(data), Zero)
    THEN Mul(Div(totalDisplacement(data), totalDistance(data)), Num(100, 0))
    ELSE Zero

\* The compass points of getCompassDirection, clockwise from north.
directions ==
    <<"N", "NNE", "NE", "ENE", "E", "ESE", "SE", "SSE",
      "S", "SSW", "SW", "WSW", "W", "WNW", "NW", "NNW">>

\* Math.round(x): the integer nearest to x, a half going up, that is
\* floor(x + 1/2); NaN for NaN.  A number below a tenth rounds to 0.
MathRound(x) ==
    IF IsNaN(x) THEN NaN
    ELSE IF x[2] >= 0 THEN x
    ELSE IF x[2] < -MantissaDigits THEN Zero
    ELSE LET p == 10^(-x[2])
         IN Num((2 * x[1] + p) \div (2 * p), 0)

\* Mutant of compassIndex: the rounded sector number is not wrapped at 16.
compassIndexUnwrapped(degrees) == MathRound(Div(degrees, Num(225, -1)))

\* Math.round(degrees / 22.5) % 16
compassIndex(degrees) ==
    Fmod(MathRound(Div(degrees, Num(225, -1))), Num(16, 0))

\* array[i] for a number i, as text: "undefined" (what the template literal
\* of directionLabel prints) unless i is one of the integers 0..Len(array)-1.
ElementText(array, i) ==
    IF \E k \in 1..Len(array) : i = Num(k - 1, 0)
    THEN array[(CHOOSE k \in 1..Len(array) : i = Num(k - 1, 0))]
    ELSE "undefined"

\* getCompassDirection(degrees)
getCompassDirection(degrees) == ElementText(directions, compassIndex(degrees))

\* DriftAnalysisChart is rendered with the given data: nothing but a message
\* for an empty array, else the statistics and chartData, every record with
\* the compass point that its directionLabel shows.
RenderData(data) ==
    /\ chart = <<>>
    /\ chart' =
         IF Len(data) = 0
         THEN <<[noData |-> TRUE]>>
         ELSE <<[noData |-> FALSE,
                 totalDistance |-> totalDistance(data),
                 totalDisplacement |-> totalDisplacement(data),
                 efficiency |-> efficiency(data),
                 chartData |->
                     [k \in 1..Len(data) |->
                         [direction |-> data[k].direction,
                          distance |-> data[k].distance,
                          displacement |-> data[k].displacement,
                          compass |-> getCompassDirection(data[k].direction)]]
                ]>>
    /\ UNCHANGED <<trajectoryPoints, driftVars, profileVars>>

\* TrajectoryDashboard renders DriftAnalysisChart with the array that
\* generateMockDriftData returned.
Render ==
    /\ pc = "done"
    /\ RenderData(driftData)

Next == Call \/ MapCallback \/ Return \/ Render

Spec == Init /\ [][Next]_vars

\* The fixes of the model that lie on the equator, at longitudes 0, 1 and 17.
EquatorPoint == { p \in TrajectoryPoint : p.latitude = Zero }

\* A float drifting along the equator: every distance is a number.
InitEquator ==
    /\ trajectoryPoints \in UNION { [1..n -> EquatorPoint] : n \in 0..MaxPoints }
    /\ DriftIdle
    /\ ProfileIdle
    /\ ChartIdle

SpecEquator == InitEquator /\ [][Next]_vars

\* generateMockDriftData is entered with one of the given arrays as its
\* argument.
CallWith(inputs) ==
    /\ pc = "call"
    /\ trajectoryPoints' \in inputs
    /\ sliced' = SliceFrom(trajectoryPoints', 1)
    /\ pc' = "map"
    /\ UNCHANGED <<index, driftData, returned, profileVars, chartVars>>

\* The number of calls of generateMockDriftData that are followed.
MaxCalls == 3

\* Mutant of NewArray: the array of the previous call is used again.
NewArrayShared(previous) == previous

\* The array map builds is a new, empty one in every call, whatever an
\* earlier call built.
NewArray(previous) == <<>>

\* The caller makes another call: the locals of the function are new.
CallAgain ==
    /\ pc = "done"
    /\ Len(returned) < MaxCalls
    /\ pc' = "call"
    /\ sliced' = <<>>
    /\ index' = 0
    /\ driftData' = NewArray(driftData)
    /\ UNCHANGED <<trajectoryPoints, returned, profileVars, chartVars>>

\* The arrays the calls are made with: none, one, two and three fixes on the
\* equator, one hour apart, forwards and backwards in time.
CallInputs ==
    LET west == [latitude |-> Zero, longitude |-> Zero,
                 timestamp |-> "1970-01-01T00:00:00.000Z"]
        east == [latitude |-> Zero, longitude |-> Num(1, 0),
                 timestamp |-> "1970-01-01T01:00:00.000Z"]
    IN { <<>>, <<west>>, <<west, east>>, <<east, west>>, <<west, east, west>> }

\* No call has been made yet.
InitCalls ==
    /\ trajectoryPoints = <<>>
    /\ DriftIdle
    /\ ProfileIdle
    /\ ChartIdle

NextCalls == CallWith(CallInputs) \/ MapCallback \/ Return \/ CallAgain

SpecCalls == InitCalls /\ [][NextCalls]_vars

(***************************************************************************)
(* ProfileOverlayChart: grouping the points into profiles                  *)
(***************************************************************************)

\* const profileSize
profileSize == 5

\* An optional number field (depth?: number) is <<>> when the property is
\* absent and <<v>> when it holds the number v.
Undefined == <<>>

\* x != null
NotNull(x) == x # Undefined

\* x || 0 for an optional number (0 is the only falsy number of the model).
OrZero(x) == IF x = Undefined THEN 0 ELSE x[1]

\* Mutant of Filter: the fields are tested for truthiness.
FilterTruthy(points) ==
    SelectSeq(points,
              LAMBDA point : OrZero(point.temperature) # 0
                                 /\ OrZero(point.depth) # 0)

\* trajectory.points.filter(point => temperature != null && depth != null)
Filter(points) ==
    SelectSeq(points,
              LAMBDA point : NotNull(point.temperature) /\ NotNull(point.depth))

\* Mutant of compareDepth: the operands exchanged.
compareDepthDescending(a, b) == OrZero(b.depth) - OrZero(a.depth)

\* The comparator of the sort: (a.depth || 0) - (b.depth || 0)
compareDepth(a, b) == OrZero(a.depth) - OrZero(b.depth)

\* Mutant of InsertSorted: x is placed before the elements that compare
\* equal to it.
RECURSIVE InsertSortedBeforeEqual(_, _)
InsertSortedBeforeEqual(sorted, x) ==
    IF sorted = <<>> THEN <<x>>
    ELSE IF compareDepth(sorted[Len(sorted)], x) >= 0
         THEN Append(InsertSortedBeforeEqual(SubSeq(sorted, 1, Len(sorted) - 1),
                                             x),
                     sorted[Len(sorted)])
         ELSE Append(sorted, x)

\* One step of a stable sort: x is placed behind every element that the
\* comparator does not put after it.
RECURSIVE InsertSorted(_, _)
InsertSorted(sorted, x) ==
    IF sorted = <<>> THEN <<x>>
    ELSE IF compareDepth(sorted[Len(sorted)], x) > 0
         THEN Append(InsertSorted(SubSeq(sorted, 1, Len(sorted) - 1), x),
                     sorted[Len(sorted)])
         ELSE Append(sorted, x)

\* The order Array.prototype.sort leaves an array in (the sort is stable).
RECURSIVE ArraySort(_)
ArraySort(array) ==
    IF array = <<>> THEN <<>>
    ELSE InsertSorted(ArraySort(SubSeq(array, 1, Len(array) - 1)),
                      array[Len(array)])

\* Mutant of SortInPlace: the array the trajectory holds is sorted as well.
SortInPlaceAndInput(arrays, ref) ==
    [arrays EXCEPT ![ref] = ArraySort(@), !.points = ArraySort(@)]

\* array.sort(...) reorders the array object it is called on and no other;
\* arrays maps the name of each array object to its content.
SortInPlace(arrays, ref) == [arrays EXCEPT ![ref] = ArraySort(@)]

\* Mutant of Window: one element more than profileSize.
WindowAndNext(valid, i) == Slice(valid, i, i + profileSize + 1)

\* validPoints.slice(i, i + profileSize), a new array.
Window(valid, i) == Slice(valid, i, i + profileSize)

\* Mutant of KeepsWindow: a window of one point is kept too.
KeepsAnyWindow(window) == Len(window) > 0

\* Mutant of KeepsWindow: a window of two points is dropped too.
KeepsWindowOverTwo(window) == Len(window) > 2

\* if (profile.length > 1)
KeepsWindow(window) == Len(window) > 1

\* The effect runs: it returns at once without an svg element or without
\* points, else it filters and returns when no point is left.
Effect ==
    /\ effect = "effect"
    /\ \E svgCurrent \in BOOLEAN :
         IF ~svgCurrent \/ Len(trajectoryPoints) = 0
         THEN /\ effect' = "skipped"
              /\ UNCHANGED validPoints
         ELSE /\ validPoints' = Filter(trajectoryPoints)
              /\ effect' = IF Len(validPoints') = 0 THEN "done" ELSE "loop"
    /\ UNCHANGED <<trajectoryPoints, iProfile, profile, profiles, paths,
                   driftVars, chartVars>>

\* One pass of the loop body: slice a window, and push it sorted when it
\* has more than one point.
LoopBody ==
    /\ effect = "loop"
    /\ iProfile < Len(validPoints)
    /\ LET arrays == [points |-> trajectoryPoints,
                      validPoints |-> validPoints,
                      profile |-> Window(validPoints, iProfile)]
           after == IF KeepsWindow(arrays.profile)
                    THEN SortInPlace(arrays, "profile")
                    ELSE arrays
       IN /\ trajectoryPoints' = after.points
          /\ validPoints' = after.validPoints
          /\ profile' = after.profile
          /\ profiles' = IF KeepsWindow(arrays.profile)
                         THEN Append(profiles, after.profile)
                         ELSE profiles
    /\ iProfile' = iProfile + profileSize
    /\ UNCHANGED <<effect, paths, driftVars, chartVars>>

\* The loop condition fails: the groups are complete and forEach starts.
LoopExit ==
    /\ effect = "loop"
    /\ iProfile >= Len(validPoints)
    /\ effect' = "draw"
    /\ UNCHANGED <<trajectoryPoints, validPoints, iProfile, profile, profiles,
                   paths, driftVars, chartVars>>

\* The longest trajectory given to the chart.
MaxProfilePoints == 7

\* The longest trajectory whose points all have depth and temperature.
MaxCompletePoints == 12

\* Timestamps ten days apart, as the data generator spaces them.
ProfileTimestamps ==
    << "2024-01-01T00:00:00.000Z",
       "2024-01-11T00:00:00.000Z",
       "2024-01-21T00:00:00.000Z",
       "2024-01-31T00:00:00.000Z",
       "2024-02-10T00:00:00.000Z",
       "2024-02-20T00:00:00.000Z",
       "2024-03-01T00:00:00.000Z",
       "2024-03-11T00:00:00.000Z",
       "2024-03-21T00:00:00.000Z",
       "2024-03-31T00:00:00.000Z",
       "2024-04-10T00:00:00.000Z",
       "2024-04-20T00:00:00.000Z",
       "2024-04-30T00:00:00.000Z",
       "2024-05-10T00:00:00.000Z" >>

\* new Date(timestamp).getTime() as an exact integer, counted in seconds
\* (every timestamp of the model is a whole second): the timestamps of
\* 1970-01-01 by their hour, and the k-th of ProfileTimestamps as
\* (k - 1) * 10 days after 2024-01-01T00:00:00Z.
ProfileGetTime(timestamp) ==
    CASE timestamp = "1970-01-01T00:00:00.000Z" -> 0
      [] timestamp = "1970-01-01T01:00:00.000Z" -> 60 * 60
      [] timestamp = "1970-01-01T20:00:00.000Z" -> 20 * 60 * 60
      [] OTHER ->
           LET k == CHOOSE n \in DOMAIN ProfileTimestamps :
                        ProfileTimestamps[n] = timestamp
           IN 1704067200 + (k - 1) * 10 * 24 * 60 * 60

\* Mutant of profileTime: read from the last element of the group.
profileTimeOfLast(group) == ProfileGetTime(group[Len(group)].timestamp)

\* const profileTime = new Date(profile[0].timestamp).getTime()
profileTime(group) == ProfileGetTime(At(group, 0).timestamp)

\* The forEach callback draws the next group: a path with the group as its
\* datum, stroked in the colour of profileTime.
Draw ==
    /\ effect = "draw"
    /\ Len(paths) < Len(profiles)
    /\ LET group == At(profiles, Len(paths))
       IN paths' = Append(paths, [datum |-> group,
                                  stroke |-> profileTime(group)])
    /\ UNCHANGED <<trajectoryPoints, validPoints, iProfile, profile, profiles,
                   effect, driftVars, chartVars>>

\* forEach has walked the groups: the effect ends.
DrawExit ==
    /\ effect = "draw"
    /\ Len(paths) = Len(profiles)
    /\ effect' = "done"
    /\ UNCHANGED <<trajectoryPoints, validPoints, iProfile, profile, profiles,
                   paths, driftVars, chartVars>>

NextProfile == Effect \/ LoopBody \/ LoopExit \/ Draw \/ DrawExit

\* What a point may carry: no depth, no temperature, both as 0, both as
\* other numbers.
Readings ==
    { [depth |-> Undefined, temperature |-> <<10>>],
      [depth |-> <<500>>, temperature |-> Undefined],
      [depth |-> <<0>>, temperature |-> <<0>>],
      [depth |-> <<500>>, temperature |-> <<10>>] }

CompleteReadings == { r \in Readings : NotNull(r.depth) /\ NotNull(r.temperature) }

\* The trajectories of n points whose readings come from readings; the
\* k-th point has id k and the k-th timestamp.
ProfileTrajectories(readings, n) ==
    { [k \in 1..n |-> [id |-> k,
                       timestamp |-> ProfileTimestamps[k],
                       depth |-> r[k].depth,
                       temperature |-> r[k].temperature]] :
        r \in [1..n -> readings] }

InitProfile ==
    /\ trajectoryPoints \in
           UNION { ProfileTrajectories(Readings, n) : n \in 0..MaxProfilePoints }
    /\ DriftIdle
    /\ ProfileIdle
    /\ ChartIdle

SpecProfile == InitProfile /\ [][NextProfile]_vars

InitComplete ==
    /\ trajectoryPoints \in
           UNION { ProfileTrajectories(CompleteReadings, n) :
                       n \in 0..MaxCompletePoints }
    /\ DriftIdle
    /\ ProfileIdle
    /\ ChartIdle

SpecComplete == InitComplete /\ [][NextProfile]_vars

(***************************************************************************)
(* TrajectoryDashboard: one trajectory.points array for both computations  *)
(***************************************************************************)

\* The points of the dashboard's trajectory: a position, a time and a
\* reading each.
DashboardPoint ==
    { [latitude |-> c[1], longitude |-> c[2], timestamp |-> t,
       depth |-> r.depth, temperature |-> r.temperature] :
        c \in { <<Zero, Zero>>, <<Zero, Num(1, 0)>> },
        t \in { "1970-01-01T00:00:00.000Z", "1970-01-01T01:00:00.000Z" },
        r \in { r \in Readings : NotNull(r.temperature) } }

\* generateMockDriftData(trajectory.points) and the effect of
\* <ProfileOverlayChart trajectory={trajectory} /> get the same array.
InitDashboard ==
    /\ trajectoryPoints \in
           UNION { { [k \in 1..n |-> [id |-> k] @@ p[k]] :
                         p \in [1..n -> DashboardPoint] } : n \in 0..MaxPoints }
    /\ DriftIdle
    /\ ProfileIdle
    /\ ChartIdle

NextDashboard == Next \/ NextProfile

SpecDashboard == InitDashboard /\ [][NextDashboard]_vars

(***************************************************************************)
(* Properties of generateMockDriftData                                     *)
(***************************************************************************)
Done == pc = "done"

\* The records produced so far, by position.
Records == 1..Len(driftData)

\* The point the k-th record (k from 1) is about, and the one before it.
PointOf(k) == trajectoryPoints[k + 1]

PrevPointOf(k) == trajectoryPoints[k]

PointKm(p, q) == Haversine(p.latitude, p.longitude, q.latitude, q.longitude)

\* Timestamps compared as instants.
Later(p, q) == Gt(GetTime(q.timestamp), GetTime(p.timestamp))

Moved(p, q) == <<p.latitude, p.longitude>> # <<q.latitude, q.longitude>>

\* C1: an n-point trajectory yields exactly max(0, n-1) records; an empty or
\* single-point trajectory yields the empty sequence.
C1_Count ==
    Done => Len(driftData) = (IF Len(trajectoryPoints) = 0 THEN 0
                              ELSE Len(trajectoryPoints) - 1)

C1_Witness == Done /\ Len(trajectoryPoints) = 1 /\ driftData = <<>>

\* C2: every record has 0 <= speed <= 10, whatever the trajectory and the
\* order of its timestamps.
C2_SpeedClamp ==
    \A k \in Records :
        /\ Geq(driftData[k].speed, Zero)
        /\ Leq(driftData[k].speed, Num(SpeedCap, 0))

\* C3: a point whose timestamp is equal to or earlier than the previous
\* point's gets speed exactly 0, whatever the distance between the two.
C3_NoTimeNoSpeed ==
    \A k \in Records :
        ~Later(PrevPointOf(k), PointOf(k)) => driftData[k].speed = Zero

C3_Witness ==
    /\ Done
    /\ Len(driftData) = 2
    /\ Later(PrevPointOf(1), PointOf(1))
    /\ PointOf(2).timestamp = PointOf(1).timestamp
    /\ Moved(PrevPointOf(2), PointOf(2))
    /\ driftData[2].speed = Zero

\* C4: a point strictly later than the previous one gets the speed
\* min(10, distance of that one pair / hours between the two).
C4_SpeedFormula ==
    \A k \in Records :
        Later(PrevPointOf(k), PointOf(k)) =>
            driftData[k].speed =
                MathMin(Num(SpeedCap, 0),
                        Div(PointKm(PrevPointOf(k), PointOf(k)),
                            Div(Sub(GetTime(PointOf(k).timestamp),
                                    GetTime(PrevPointOf(k).timestamp)),
                                Num(3600000, 0))))

C4_Witness ==
    /\ Done
    /\ Len(driftData) = 2
    /\ Later(PrevPointOf(2), PointOf(2))
    /\ Gt(driftData[2].speed, Zero)
    /\ Lt(driftData[2].speed, Num(SpeedCap, 0))
    /\ driftData[2].distance # PointKm(PrevPointOf(2), PointOf(2))
    /\ driftData[2].displacement # PointKm(PrevPointOf(2), PointOf(2))

RECURSIVE PathKm(_)
\* The consecutive-pair distances of the first i + 1 points, summed in order.
PathKm(i) ==
    IF i = 0 THEN Zero
    ELSE Add(PathKm(i - 1), PointKm(trajectoryPoints[i], trajectoryPoints[i + 1]))

\* C5: the distance of the record for points[i] is the sum of the
\* consecutive-pair distances up to and including the pair (i-1, i).
C5_Cumulative == \A k \in Records : driftData[k].distance = PathKm(k)

C5_Witness ==
    /\ Done
    /\ Len(driftData) = 2
    /\ Gt(driftData[1].distance, Zero)
    /\ Gt(driftData[2].distance, driftData[1].distance)

\* C6: the cumulative distance never decreases from one record to the next.
C6_Monotonic ==
    \A k \in Records :
        k > 1 => Geq(driftData[k].distance, driftData[k - 1].distance)

\* C7: displacement <= distance in every record.
C7_Triangle ==
    \A k \in Records : Leq(driftData[k].displacement, driftData[k].distance)

\* C8: the displacement of the record for points[i] is the distance from
\* points[0] to points[i].
C8_Displacement ==
    \A k \in Records :
        driftData[k].displacement = PointKm(trajectoryPoints[1], PointOf(k))

C8_Witness ==
    /\ Done
    /\ Len(driftData) = 2
    /\ driftData[2].displacement # PointKm(PrevPointOf(2), PointOf(2))
    /\ driftData[2].displacement # driftData[2].distance
    /\ Gt(driftData[2].displacement, Zero)

\* C9: the direction of a record is the bearing from the previous point
\* toward the record's point, at least 0 and less than 360.
C9_Bearing ==
    \A k \in Records :
        /\ driftData[k].direction = direction(PrevPointOf(k), PointOf(k))
        /\ Geq(driftData[k].direction, Zero)
        /\ Lt(driftData[k].direction, Num(360, 0))

\* A westward leg (a negative angle brought to 270), then a leg whose angle is
\* so little below 0 that adding 360 gives 360, which the remainder turns to 0.
C9_Witness ==
    /\ Done
    /\ Len(driftData) = 2
    /\ driftData[1].direction = Num(270, 0)
    /\ Lt(BearingRadians(PrevPointOf(2).latitude, PrevPointOf(2).longitude,
                         PointOf(2).latitude, PointOf(2).longitude), Zero)
    /\ driftData[2].direction = Zero

\* C10: the records are in input order; the k-th record (k from 0) carries
\* the timestamp, latitude and longitude of points[k+1] unchanged, and its
\* speed and direction are those of the pair (points[k], points[k+1]).
C10_Order ==
    \A k \in Records :
        /\ driftData[k].timestamp = PointOf(k).timestamp
        /\ driftData[k].latitude = PointOf(k).latitude
        /\ driftData[k].longitude = PointOf(k).longitude
        /\ driftData[k].speed = cappedSpeed(PrevPointOf(k), PointOf(k))
        /\ driftData[k].direction = direction(PrevPointOf(k), PointOf(k))

C10_Witness ==
    /\ Done
    /\ Len(driftData) = 2
    /\ Moved(PointOf(1), PointOf(2))
    /\ Moved(PrevPointOf(1), PointOf(1))
    /\ PointOf(1).timestamp # PointOf(2).timestamp
    /\ PrevPointOf(1).timestamp # PointOf(1).timestamp

\* The array with its elements in the opposite order.
Reversed(array) == [k \in 1..Len(array) |-> array[Len(array) + 1 - k]]

\* C11: the great-circle distance is symmetric: any two points of the
\* trajectory are as far apart from a to b as from b to a, and the single
\* record of a two-point trajectory has the distance that the record of the
\* reversed trajectory has.
C11_Symmetric ==
    /\ \A i \in DOMAIN trajectoryPoints : \A j \in DOMAIN trajectoryPoints :
          PointKm(trajectoryPoints[i], trajectoryPoints[j])
              = PointKm(trajectoryPoints[j], trajectoryPoints[i])
    /\ (Done /\ Len(trajectoryPoints) = 2) =>
          driftData[1].distance
              = DriftData(Reversed(trajectoryPoints),
                          At(Reversed(trajectoryPoints), 1), 0).distance

C11_Witness ==
    /\ Done
    /\ Len(trajectoryPoints) = 2
    /\ Moved(PrevPointOf(1), PointOf(1))
    /\ PrevPointOf(1).longitude # Zero
    /\ Gt(driftData[1].distance, Zero)

\* C12: the great-circle distance of the pair behind every record is at
\* least 0, and it is 0 exactly when the two points have the same latitude
\* and longitude.
C12_ZeroIffEqual ==
    \A k \in Records :
        LET a == PrevPointOf(k)
            b == PointOf(k)
        IN /\ Geq(distance(a, b), Zero)
           /\ (distance(a, b) = Zero) <=> ~Moved(a, b)

\* Every point of the trajectory has the coordinates of the first one.
Stationary ==
    \A i \in DOMAIN trajectoryPoints :
        ~Moved(trajectoryPoints[1], trajectoryPoints[i])

\* C13: a record whose two points have identical coordinates has direction
\* 0, pair distance 0 and speed 0; when all points of the trajectory share
\* one pair of coordinates, every record has speed, direction, distance and
\* displacement 0.
C13_Stationary ==
    /\ \A k \in Records :
          ~Moved(PrevPointOf(k), PointOf(k)) =>
              /\ driftData[k].direction = Zero
              /\ distance(PrevPointOf(k), PointOf(k)) = Zero
              /\ driftData[k].speed = Zero
    /\ Stationary =>
          \A k \in Records :
              /\ driftData[k].speed = Zero
              /\ driftData[k].direction = Zero
              /\ driftData[k].distance = Zero
              /\ driftData[k].displacement = Zero

C13_Witness ==
    /\ Done
    /\ Len(driftData) = 2
    /\ Stationary
    /\ PointOf(1).latitude # Zero
    /\ Later(PrevPointOf(1), PointOf(1))
    /\ Later(PointOf(1), PointOf(2))

\* The trajectory (0 N, 0 E) at 0 h, (0 N, 1 E) at 1 h.
EquatorDegree ==
    << [latitude |-> Zero, longitude |-> Zero,
        timestamp |-> "1970-01-01T00:00:00.000Z"],
       [latitude |-> Zero, longitude |-> Num(1, 0),
        timestamp |-> "1970-01-01T01:00:00.000Z"] >>

\* x lies between lo and hi.
Between(x, lo, hi) == Leq(lo, x) /\ Leq(x, hi)

\* C14: for (0 N, 0 E) at 0 h and (0 N, 1 E) at 1 h the single record has a
\* cumulative distance of about 111.19 km (within 0.1 km), a raw speed of
\* about 111.19 km/h reported as exactly 10, and a direction of about 90
\* degrees (within 0.1).
C14_EquatorDegree ==
    (Done /\ trajectoryPoints = EquatorDegree) =>
        /\ Len(driftData) = 1
        /\ Between(driftData[1].distance, Num(1111, -1), Num(1113, -1))
        /\ Between(speed(EquatorDegree[1], EquatorDegree[2]),
                   Num(1111, -1), Num(1113, -1))
        /\ driftData[1].speed = Num(10, 0)
        /\ Between(driftData[1].direction, Num(8990, -2), Num(9010, -2))

C14_Witness ==
    /\ Done
    /\ trajectoryPoints = EquatorDegree
    /\ Len(driftData) = 1

(***************************************************************************)
(* Properties of the profile grouping                                      *)
(***************************************************************************)

\* The filter has run.
Filtered == effect \in {"loop", "done"}

\* The effect went through the grouping loop, or returned before it for
\* want of a valid point.
Grouped == effect \in {"draw", "done"}

HasBoth(point) == point.temperature # Undefined /\ point.depth # Undefined

\* The points of an array, as a set.
Elements(array) == { array[k] : k \in DOMAIN array }

\* C15: once the filter has run, validPoints holds no point whose depth or
\* temperature is absent and holds every point of the trajectory that has
\* both (a depth or temperature of 0 counts as present); no group contains a
\* point with a missing depth or temperature.
C15_Filter ==
    Filtered =>
        /\ \A point \in Elements(validPoints) : HasBoth(point)
        /\ \A point \in Elements(trajectoryPoints) :
               HasBoth(point) => point \in Elements(validPoints)
        /\ \A g \in DOMAIN profiles :
               \A point \in Elements(profiles[g]) : HasBoth(point)

C15_Witness ==
    /\ Grouped
    /\ \E g \in DOMAIN profiles : \E point \in Elements(profiles[g]) :
           point.depth = <<0>> /\ point.temperature = <<0>>
    /\ \E point \in Elements(trajectoryPoints) : point.depth = Undefined
    /\ \E point \in Elements(trajectoryPoints) : point.temperature = Undefined

\* The filtered positions (from 1) of window k (from 0): 5k+1 .. 5k+5,
\* cut at the end of validPoints.
WindowPositions(k) ==
    { n \in 1..Len(validPoints) : 5 * k + 1 <= n /\ n <= 5 * k + 5 }

C17_AtLeastTwo ==
    /\ \A g \in DOMAIN profiles : Len(profiles[g]) >= 2
    /\ Grouped =>
           \A k \in 0..Len(validPoints) :
               Cardinality(WindowPositions(k)) = 1 => Len(profiles) <= k

C17_Witness ==
    /\ Grouped
    /\ Len(validPoints) = 6
    /\ Len(profiles) = 1
    /\ Len(trajectoryPoints) = 7

\* C18: within every group the points are in ascending order of depth.
C18_AscendingDepth ==
    \A g \in DOMAIN profiles :
        \A m \in DOMAIN profiles[g] : \A n \in DOMAIN profiles[g] :
            m < n => profiles[g][m].depth[1] <= profiles[g][n].depth[1]

C18_Witness ==
    /\ Grouped
    /\ \E g \in DOMAIN profiles :
           /\ profiles[g][1].depth[1] < profiles[g][Len(profiles[g])].depth[1]
           /\ \E m \in DOMAIN profiles[g] : \E n \in DOMAIN profiles[g] :
                  /\ profiles[g][m].id > profiles[g][n].id
                  /\ m < n

\* The effect has produced its groups (also when there was no point).
Finished ==
    \/ Grouped
    \/ effect = "skipped" /\ trajectoryPoints = <<>>

\* The points of validPoints that are in no group.
LeftOut ==
    { point \in Elements(validPoints) :
        \A g \in DOMAIN profiles : point \notin Elements(profiles[g]) }

C20_InputUnchanged == [][trajectoryPoints' = trajectoryPoints]_vars

C20_Witness ==
    /\ Done
    /\ Grouped
    /\ Len(driftData) = 2
    /\ Len(profiles) = 1
    /\ Len(profiles[1]) = 3
    /\ profiles[1] # trajectoryPoints

(***************************************************************************)
(* Further properties of generateMockDriftData                             *)
(***************************************************************************)

\* A number of the model or NaN (never undefined).
IsNumber(x) == x \in Seq(Int) /\ Len(x) = 2

\* C21: generateMockDriftData never raises an error and always returns: no
\* state has a thrown exception; while the map runs it can always take a
\* step (index <= length of the slice) and every step of it either moves
\* index closer to the end of the slice or returns; what is returned is a
\* sequence of records whose numeric fields are numbers (NaN included), also
\* for coordinates out of range and timestamps that go backwards.
C21_NoError ==
    /\ [](pc # "threw")
    /\ [](pc = "map" => index <= Len(sliced))
    /\ [][pc = "map" =>
            \/ pc' = "done"
            \/ pc' = "map" /\ Len(sliced') - index' < Len(sliced) - index]_vars
    /\ [](Done =>
            \A k \in Records :
                /\ DOMAIN driftData[k]
                       = {"timestamp", "speed", "direction", "latitude",
                          "longitude", "distance", "displacement"}
                /\ \A f \in DOMAIN driftData[k] \ {"timestamp"} :
                       IsNumber(driftData[k][f]))

C21_Witness ==
    /\ Done
    /\ Len(driftData) = 2
    /\ Gt(PointOf(1).latitude, Num(90, 0))
    /\ Gt(PointOf(1).longitude, Num(180, 0))
    /\ Later(PointOf(2), PointOf(1))
    /\ ~IsNaN(driftData[2].distance)

\* C22: the drift computation is stateless and deterministic: any two calls
\* that were given equal trajectories returned equal record sequences,
\* whatever other calls were made before or between them.
C22_Stateless ==
    \A m \in DOMAIN returned : \A n \in DOMAIN returned :
        returned[m].argument = returned[n].argument
            => returned[m].result = returned[n].result

C22_Witness ==
    /\ Len(returned) = 3
    /\ returned[1].argument = returned[3].argument
    /\ returned[2].argument # returned[1].argument
    /\ Len(returned[1].result) = 2
    /\ Len(returned[2].result) = 1

\* C23: the result on the first k points of the trajectory is the first
\* max(0, k - 1) records of the result on all its points, for every k up to
\* the length of the trajectory.
C23_Prefix ==
    Done =>
        \A k \in 0..Len(trajectoryPoints) :
            generateMockDriftData(SubSeq(trajectoryPoints, 1, k))
                = SubSeq(driftData, 1, IF k = 0 THEN 0 ELSE k - 1)

C23_Witness ==
    /\ Done
    /\ Len(driftData) = 2
    /\ Moved(PrevPointOf(1), PointOf(1))
    /\ Moved(PointOf(1), PointOf(2))
    /\ Moved(PrevPointOf(1), PointOf(2))
    /\ ~IsNaN(driftData[2].distance)

\* C24: the first record's distance equals its displacement, both being the
\* great-circle distance from points[0] to points[1]; every later record's
\* distance is the previous record's distance plus the great-circle distance
\* of its own pair of consecutive points.
C24_Recurrence ==
    \A k \in Records :
        IF k = 1
        THEN /\ driftData[1].distance = driftData[1].displacement
             /\ driftData[1].distance
                    = PointKm(trajectoryPoints[1], trajectoryPoints[2])
        ELSE driftData[k].distance
                 = Add(driftData[k - 1].distance,
                       PointKm(PrevPointOf(k), PointOf(k)))

C24_Witness ==
    /\ Done
    /\ Len(driftData) = 2
    /\ Gt(driftData[1].distance, Zero)
    /\ Gt(driftData[2].distance, driftData[1].distance)
    /\ driftData[2].distance # driftData[2].displacement

(***************************************************************************)
(* Further properties of the profile grouping                              *)
(***************************************************************************)

\* The filtered points of window k (from 0), in their original order.
WindowOf(k) ==
    [n \in 1..Cardinality(WindowPositions(k)) |-> validPoints[5 * k + n]]

\* C25: each group is a permutation of its window: it has the window's
\* points, each exactly once and unaltered, and two points of equal depth
\* stand in the group in the order they had in the window.
C25_StablePermutation ==
    \A g \in DOMAIN profiles :
        LET group == profiles[g]
            window == WindowOf(g - 1)
        IN /\ Len(group) = Len(window)
           /\ \A n \in DOMAIN window :
                  Cardinality({ m \in DOMAIN group : group[m] = window[n] }) = 1
           /\ \A m \in DOMAIN window : \A n \in DOMAIN window :
                  (m < n /\ window[m].depth = window[n].depth) =>
                      \E a \in DOMAIN group : \E b \in DOMAIN group :
                          /\ a < b
                          /\ group[a] = window[m]
                          /\ group[b] = window[n]

C25_Witness ==
    /\ Grouped
    /\ \E g \in DOMAIN profiles :
           /\ profiles[g] # WindowOf(g - 1)
           /\ \E m \in DOMAIN profiles[g] : \E n \in DOMAIN profiles[g] :
                  /\ m < n
                  /\ profiles[g][m].depth = profiles[g][n].depth
                  /\ profiles[g][m].id < profiles[g][n].id

\* The element a group starts with: of the points of the window with the
\* least depth, the one that comes first in the window.
Shallowest(window) ==
    CHOOSE point \in Elements(window) :
        \A other \in Elements(window) :
            \/ point.depth[1] < other.depth[1]
            \/ point.depth[1] = other.depth[1] /\ point.id <= other.id

\* C26: the time that stands for a group (the colour of its line) is the
\* timestamp of the group's first element after the sort, which is the
\* shallowest point of its window, whether or not that is the earliest one.
C26_ShallowestTime ==
    \A g \in DOMAIN paths :
        /\ paths[g].stroke = ProfileGetTime(profiles[g][1].timestamp)
        /\ profiles[g][1] = Shallowest(WindowOf(g - 1))
        /\ paths[g].stroke = ProfileGetTime(Shallowest(WindowOf(g - 1)).timestamp)

C26_Witness ==
    /\ effect = "done"
    /\ Len(paths) = 2
    /\ paths[1].stroke > ProfileGetTime(WindowOf(0)[1].timestamp)
    /\ paths[2].stroke = ProfileGetTime(WindowOf(1)[1].timestamp)


\* The directions DriftAnalysisChart is rendered with: every number of the
\* model from 0 up to, not including, 360 (hundredths below 100, tenths
\* from 100 on).
Headings ==
    { Num(n, -2) : n \in 0..9999 } \cup { Num(n, -1) : n \in 1000..3599 }

\* A drift record with the given direction, of a float that has not moved.
HeadingRecord(d) ==
    [timestamp |-> "1970-01-01T00:00:00.000Z",
     latitude |-> Zero, longitude |-> Zero,
     distance |-> Zero, speed |-> Zero,
     direction |-> d, displacement |-> Zero]

\* DriftAnalysisChart is rendered with one record of any heading as its data.
RenderHeading == \E d \in Headings : RenderData(<<HeadingRecord(d)>>)

InitChart ==
    /\ trajectoryPoints = <<>>
    /\ DriftIdle
    /\ ProfileIdle
    /\ ChartIdle

NextChart == RenderHeading

SpecChart == InitChart /\ [][NextChart]_vars

\* DriftAnalysisChart has rendered a data array that is not empty.
Charted == chart # <<>> /\ ~chart[1].noData

\* C27: the efficiency DriftAnalysisChart shows is (displacement / distance)
\* * 100 of the last drift record when that distance is above 0 and 0
\* otherwise, and for the records of generateMockDriftData it lies in
\* [0, 100].
C27_Efficiency ==
    Charted =>
        LET last == driftData[Len(driftData)]
            shown == chart[1].efficiency
        IN /\ shown = IF Gt(last.distance, Zero)
                      THEN Mul(Div(last.displacement, last.distance),
                               Num(100, 0))
                      ELSE Zero
           /\ Leq(Zero, shown)
           /\ Leq(shown, Num(100, 0))

\* C28: for every direction d with 0 <= d < 360 getCompassDirection returns
\* one of the 16 compass points, never undefined, and it returns "N" both
\* for 348.75 <= d < 360 and for 0 <= d < 11.25.
C28_CompassTotal ==
    Charted =>
        \A k \in DOMAIN chart[1].chartData :
            LET d == chart[1].chartData[k].direction
                compass == chart[1].chartData[k].compass
            IN (Geq(d, Zero) /\ Lt(d, Num(360, 0))) =>
                   /\ \E i \in DOMAIN directions : compass = directions[i]
                   /\ (Geq(d, Num(34875, -2)) \/ Lt(d, Num(1125, -2))) =>
                          compass = "N"

\* A direction of the last sector before 360 has been shown as "N".
C28_Witness ==
    /\ Charted
    /\ \E k \in DOMAIN chart[1].chartData :
           /\ Geq(chart[1].chartData[k].direction, Num(34875, -2))
           /\ Lt(chart[1].chartData[k].direction, Num(360, 0))
           /\ chart[1].chartData[k].compass = "N"

=============================================================================
